---- MODULE Spec2Model ----
(***************************************************************************)
(* A model of the gakkenberry visualisation scripts: the coordinate-grid   *)
(* memoisation, the azimuthal-equidistant projection and its inverse grid, *)
(* the blink state machine, the gaze and the pupil keys of the three       *)
(* eyeball programs, the per-pixel painters, the colour map of the         *)
(* spherical harmonics, the frame loops and the gnomonic mappings.         *)
(*                                                                         *)
(* Each part of the repository is an independent slice of state, with a    *)
(* specification of its own:                                               *)
(*   SpecCache   the _coord_cache dictionaries                             *)
(*   SpecProj    azimuthal_equidistant_projection and the inverse grid     *)
(*   SpecBlink   update_blinking / the gpu_eyeball blink state machine     *)
(*   SpecPaint   the per-pixel painters                                    *)
(*   SpecGaze    update_eye_movement, the arrow keys and R                 *)
(*   SpecPupil   the pupil keys                                            *)
(*   SpecColors  values_to_colors                                          *)
(*   SpecLoop    the `while running:` loops                                *)
(*   SpecGnomonic  the gnomonic grid and sphere_to_screen                  *)
(***************************************************************************)
EXTENDS Integers, Sequences, FiniteSets, TLC

VARIABLES
    \* ---- coordinate-grid cache slice
    module,          \* the module whose _coord_cache this process holds
    coord_cache,     \* _coord_cache: a function from keys <<H, W>> to entries
    returned,        \* the value the last call returned
    call_log,        \* the keys requested so far, in order
    build_log,       \* the keys whose grid was constructed, in order
    \* ---- projection slice
    direction,       \* the argument <<x, y, z>> of the last projection call
    screen,          \* what azimuthal_equidistant_projection returned for it
    grid_sample,     \* the inverse grid's entry read at that pixel
    \* ---- blink slice (also read by the painters)
    prog,            \* the running script: eyeball, eyeball_fullscreen, gpu_eyeball
    ticks,           \* the clock, in ms: pygame.time.get_ticks() / perf_counter()
    start_time,      \* start_time (t0 in gpu_eyeball), read once before the loop
    pc,              \* position in the main loop: "top" or "events"
    t_now,           \* gpu_eyeball's `t = now - t0`, latched at the loop top
    blink_state,     \* blink_state (blink in gpu_eyeball), an IEEE double
    blink_closing,   \* blink_closing; FALSE also stands for "attribute not set"
    next_blink_time, \* next_blink_time (next_blink in gpu_eyeball), in ms
    space_event,     \* SPACE handled in this iteration: "none", "open", "busy"
    blink_end,       \* observer: current_time of the last completed blink, or -1
    \* ---- painter slice
    self_decimation, \* FullscreenEyeballRenderer.decimation (4 in eyeball_core)
    iris_center,     \* <<iris_center_x, iris_center_y>>, in 1/100 of the half-frame
    pupil_size,      \* pupil_radius (eyeball) / pupil_scale (fullscreen), in 1/100
    pixel,           \* the frame pixel <<x, y>> looked at
    painted,         \* the layer whose colour that pixel shows
    \* ---- gaze and key slice
    eye,             \* <<eye_theta, eye_phi>> / <<eye_y, eye_x>>, in 1/GazeOne
    target,          \* <<target_theta, target_phi>> / <<target_y, target_x>>
    last_movement_time, \* last_movement_time (main._last_move), in ms
    movement_interval,  \* movement_interval (main._move_ivl), in ms
    pupil_value,     \* pupil_radius (eyeball) / pupil_scale, an IEEE double
    last_key,        \* the key whose handler ran last, or "none"
    frames,          \* number of eye-movement updates made so far
    keys,            \* number of key presses handled so far
    saccade_time,    \* observer: current_time of the last automatic target, or -1
    saccade_gap,     \* observer: time between the last two of them, or -1
    \* ---- spherical-harmonics slice
    sh_value,        \* the real value a colour was computed for, in 1/ValueOne
    sh_colour,       \* the colour <<r, g, b>> computed, or <<>>
    \* ---- frame-loop slice
    running,         \* the loop variable `running`
    event_queue,     \* pygame's event queue: events posted and not yet taken
    passes_since_post, \* observer: loop tests passed since QUIT / ESC was posted, or -1
    frames_not_running, \* observer: frames rendered with running False
    \* ---- gnomonic slice
    gn_pixel,        \* the screen pixel <<column, row>> looked at
    gn_angles,       \* what the screen-to-sphere mapping gave for it
    gn_screen        \* what sphere_to_screen gave for those angles

cacheVars == <<module, coord_cache, returned, call_log, build_log>>
projVars == <<direction, screen, grid_sample>>
blinkVars == <<prog, ticks, start_time, pc, t_now, blink_state, blink_closing,
               next_blink_time, space_event, blink_end>>
paintVars == <<self_decimation, iris_center, pupil_size, pixel, painted>>
gazeVars == <<eye, target, last_movement_time, movement_interval, pupil_value,
              last_key, frames, keys, saccade_time, saccade_gap>>
shVars == <<sh_value, sh_colour>>
loopVars == <<running, event_queue, passes_since_post, frames_not_running>>
gnomVars == <<gn_pixel, gn_angles, gn_screen>>
restVars == <<gazeVars, shVars, loopVars, gnomVars>>

vars == <<cacheVars, projVars, blinkVars, paintVars, restVars>>

(***************************************************************************)
(* Screen dimensions.                                                      *)
(***************************************************************************)
H == 720
W == 1280

(***************************************************************************)
(* Bounds of the cache slice.                                              *)
(***************************************************************************)
MaxCalls == 4
MaxScale == 2
MaxDecimation == 4

Modules == {"eyeball_core", "spherical_harmonics", "eyeball_fullscreen"}

NoEntry == [H_res |-> 0, W_res |-> 0, serial |-> 0]

Range(s) == {s[i] : i \in DOMAIN s}

\* Resolutions handed to get_coordinate_grids_cached: the callers pass
\* (H // 4, W // 4); multiples of it stand for other resolutions.
ResolutionsH == {(H \div 4) * i : i \in 1..MaxScale}
ResolutionsW == {(W \div 4) * i : i \in 1..MaxScale}

\* The dictionary lookup-or-build shared by the three cached getters:
\* `if cache_key not in _coord_cache: _coord_cache[cache_key] = {...}`
\* followed by `return _coord_cache[cache_key]`.  A built entry is a fresh
\* object: its serial is the number of grids constructed so far.
CacheStoreFresh(key) ==
    /\ coord_cache' = (key :> [H_res |-> key[1], W_res |-> key[2],
                               serial |-> Len(build_log) + 1]) @@ coord_cache
    /\ build_log' = Append(build_log, key)

\* A getter that skips the `cache_key not in _coord_cache` test and builds on
\* every call.
CacheLookupAlwaysBuild(key) ==
    /\ Len(call_log) < MaxCalls
    /\ call_log' = Append(call_log, key)
    /\ CacheStoreFresh(key)
    /\ returned' = coord_cache'[key]
    /\ UNCHANGED <<module, projVars, blinkVars, paintVars, restVars>>

CacheLookup(key) ==
    /\ Len(call_log) < MaxCalls
    /\ call_log' = Append(call_log, key)
    /\ IF key \notin DOMAIN coord_cache
          THEN CacheStoreFresh(key)
          ELSE UNCHANGED <<coord_cache, build_log>>
    /\ returned' = coord_cache'[key]
    /\ UNCHANGED <<module, projVars, blinkVars, paintVars, restVars>>

\* eyeball_core.get_coordinate_grids_cached / spherical_harmonics.get_coordinate_grids_cached
GetCoordinateGridsCached(H_res, W_res) ==
    /\ module \in {"eyeball_core", "spherical_harmonics"}
    /\ CacheLookup(<<H_res, W_res>>)

\* eyeball_fullscreen.get_fullscreen_coords_cached
GetFullscreenCoordsCached(decimation) ==
    /\ module = "eyeball_fullscreen"
    /\ CacheLookup(<<H \div decimation, W \div decimation>>)

(***************************************************************************)
(* Real arithmetic.  Python floats are modelled in fixed point: lengths    *)
(* and the values of sin and cos in units of 1/FixedOne, angles in units   *)
(* of 1/Quarter of a right angle (math.pi / 2 is Quarter units).           *)
(***************************************************************************)
FixedOne == 10000
Quarter == 9000
PiHalfFixed == 15708

Abs(n) == IF n < 0 THEN -n ELSE n
Min(a, b) == IF a < b THEN a ELSE b
Max(a, b) == IF a > b THEN a ELSE b

\* floor(a * b / c) for a, b >= 0 and c > 0, without overflowing a * b
MulDiv(a, b, c) == (a \div c) * b + ((a % c) * b) \div c

\* Python's int(): the quotient num / den truncated toward zero (den > 0)
IntTrunc(num, den) == IF num >= 0 THEN num \div den ELSE -((-num) \div den)

\* an angle of 0..Quarter units in fixed-point radians
Radians(a) == (a * PiHalfFixed) \div Quarter

\* cos and sin of a fixed-point angle of at most pi/4 radians, by their series
CosSeries(x) ==
    LET x2 == (x * x) \div FixedOne
        t1 == x2 \div 2
        t2 == (t1 * x2) \div (12 * FixedOne)
        t3 == (t2 * x2) \div (30 * FixedOne)
        t4 == (t3 * x2) \div (56 * FixedOne)
    IN  FixedOne - t1 + t2 - t3 + t4

SinSeries(x) ==
    LET x2 == (x * x) \div FixedOne
        s1 == (x * x2) \div (6 * FixedOne)
        s2 == (s1 * x2) \div (20 * FixedOne)
        s3 == (s2 * x2) \div (42 * FixedOne)
    IN  x - s1 + s2 - s3

\* cos of an angle in the first quadrant, 0..Quarter
CosQ(a) ==
    IF 2 * a <= Quarter THEN CosSeries(Radians(a))
                        ELSE SinSeries(Radians(Quarter - a))

\* math.cos / math.sin of any angle
Cos(a) ==
    LET m == a % (4 * Quarter) IN
    IF m <= Quarter THEN CosQ(m)
    ELSE IF m <= 2 * Quarter THEN -CosQ(2 * Quarter - m)
    ELSE IF m <= 3 * Quarter THEN -CosQ(m - 2 * Quarter)
    ELSE CosQ(4 * Quarter - m)

Sin(a) == Cos(a - Quarter)

\* math.acos: the least angle of 0..Quarter whose cosine is at most x (x >= 0),
\* found by bisection; mirrored for x < 0
RECURSIVE ACosSearch(_, _, _)
ACosSearch(x, lo, hi) ==
    IF lo >= hi THEN lo
    ELSE LET mid == (lo + hi) \div 2 IN
         IF CosQ(mid) <= x THEN ACosSearch(x, lo, mid)
                           ELSE ACosSearch(x, mid + 1, hi)

ACos(x) ==
    IF x >= 0 THEN ACosSearch(x, 0, Quarter)
              ELSE 2 * Quarter - ACosSearch(-x, 0, Quarter)

\* math.atan2(z, y): the first-quadrant angle t with tan t = |z| / |y| by
\* bisection, then placed in the quadrant of (y, z); atan2(0, 0) = 0
RECURSIVE ATanSearch(_, _, _, _)
ATanSearch(z, y, lo, hi) ==
    IF lo >= hi THEN lo
    ELSE LET mid == (lo + hi) \div 2 IN
         IF CosQ(Quarter - mid) * y >= CosQ(mid) * z
            THEN ATanSearch(z, y, lo, mid)
            ELSE ATanSearch(z, y, mid + 1, hi)

ATan2(z, y) ==
    LET t == ATanSearch(Abs(z), Abs(y), 0, Quarter)
        u == IF y >= 0 THEN t ELSE 2 * Quarter - t
    IN  IF z >= 0 THEN u ELSE -u

\* math.sqrt of a natural number, rounded down, by bisection
RECURSIVE SqrtSearch(_, _, _)
SqrtSearch(n, lo, hi) ==
    IF lo >= hi THEN lo
    ELSE LET mid == (lo + hi + 1) \div 2 IN
         IF mid * mid <= n THEN SqrtSearch(n, mid, hi)
                           ELSE SqrtSearch(n, lo, mid - 1)

Sqrt(n) == SqrtSearch(n, 0, 4 * FixedOne)

(***************************************************************************)
(* projection_utils.py: the forward azimuthal-equidistant projection.      *)
(* H_proj, W_proj are its H, W = 480, 640; SCALE_X, SCALE_Y are in         *)
(* hundredths (0.80, 0.78).                                                *)
(***************************************************************************)
H_proj == 480
W_proj == 640
SCALE_X == 80
SCALE_Y == 78

None == [none |-> TRUE, val |-> 0]
Some(v) == [none |-> FALSE, val |-> v]
NoneNone == <<None, None>>

\* max_angle = math.pi / 2
max_angle == Quarter

\* max_screen_radius = min(W, H) / 2 * 0.9, in tenths of a pixel
max_screen_radius == (Min(W_proj, H_proj) \div 2) * 9

\* ceil(a * b / c) for a, b >= 0 and c > 0
MulDivCeil(a, b, c) == (a \div c) * b + ((a % c) * b + c - 1) \div c

\* int(base + sign * q), Python's truncation toward zero, for the real
\* q = n * m / (FixedOne * d) >= 0 and an integer base
IntOfSum(base, sign, n, m, d) ==
    LET qFloor == MulDiv(n, m, FixedOne) \div d
        qCeil == (MulDivCeil(n, m, FixedOne) + d - 1) \div d
    IN  IF sign >= 0 THEN base + qFloor
        ELSE IF qCeil <= base THEN base - qCeil
        ELSE base - qFloor

\* great_circle_angle = math.acos(max(-1, min(1, x)))
GreatCircleAngle(x) == ACos(Max(-FixedOne, Min(FixedOne, x)))

\* screen_radius = radius * max_screen_radius with radius = angle / max_angle,
\* as the numerator of a fraction over 10 * max_angle pixels
ScreenRadiusNum(great_circle_angle) == great_circle_angle * max_screen_radius

\* a projection that leaves the calibration factor SCALE_X out
ScreenXUnscaled(great_circle_angle, azimuth) ==
    LET c == Cos(azimuth) IN
    IntOfSum(W_proj \div 2, c, ScreenRadiusNum(great_circle_angle),
             Abs(c), 10 * max_angle)

\* screen_x = int(W/2 + screen_radius * math.cos(azimuth) / SCALE_X)
ScreenX(great_circle_angle, azimuth) ==
    LET c == Cos(azimuth) IN
    IntOfSum(W_proj \div 2, c, ScreenRadiusNum(great_circle_angle) * 10,
             Abs(c), max_angle * SCALE_X)

\* screen_y = int(H/2 - screen_radius * math.sin(azimuth) / SCALE_Y)
ScreenY(great_circle_angle, azimuth) ==
    LET sn == Sin(azimuth) IN
    IntOfSum(H_proj \div 2, -sn, ScreenRadiusNum(great_circle_angle) * 10,
             Abs(sn), max_angle * SCALE_Y)

InBounds(screen_x, screen_y) ==
    /\ 0 <= screen_x /\ screen_x < W_proj
    /\ 0 <= screen_y /\ screen_y < H_proj

\* the part of the function after the `x <= 0` test
ProjectForward(x, y, z) ==
    LET great_circle_angle == GreatCircleAngle(x) IN
    IF great_circle_angle > max_angle THEN NoneNone
    ELSE LET azimuth == ATan2(z, y)
             screen_x == ScreenX(great_circle_angle, azimuth)
             screen_y == ScreenY(great_circle_angle, azimuth)
         IN  IF InBounds(screen_x, screen_y)
                THEN <<Some(screen_x), Some(screen_y)>>
                ELSE NoneNone

\* the function with `x < 0` for its first test
ProjectionStrictBehind(x, y, z) ==
    IF x < 0 THEN NoneNone ELSE ProjectForward(x, y, z)

\* the function without its final bounds check
ProjectionUnchecked(x, y, z) ==
    IF x <= 0 THEN NoneNone
    ELSE LET great_circle_angle == GreatCircleAngle(x)
             azimuth == ATan2(z, y)
         IN  <<Some(ScreenX(great_circle_angle, azimuth)),
               Some(ScreenY(great_circle_angle, azimuth))>>

azimuthal_equidistant_projection(x, y, z) ==
    IF x <= 0 THEN NoneNone ELSE ProjectForward(x, y, z)

(***************************************************************************)
(* get_coordinate_grids_cached: the entry of the inverse grid at pixel     *)
(* (px, py) of an H_res x W_res grid.                                      *)
(***************************************************************************)
\* max_radius = 0.9, in tenths
max_radius == 9

\* norm_x = (x_coords * 640 / W_res - 320) / 320, in fixed point
NormX(px, W_res) ==
    LET num == px * 640 - 320 * W_res
        mag == MulDiv(Abs(num), FixedOne, 320 * W_res)
    IN  IF num >= 0 THEN mag ELSE -mag

\* norm_y = (y_coords * 480 / H_res - 240) / 240, in fixed point
NormY(py, H_res) ==
    LET num == py * 480 - 240 * H_res
        mag == MulDiv(Abs(num), FixedOne, 240 * H_res)
    IN  IF num >= 0 THEN mag ELSE -mag

RECURSIVE Gcd(_, _)
Gcd(a, b) == IF b = 0 THEN a ELSE Gcd(b, a % b)

\* radius <= max_radius, decided exactly: with norm_x = a / W_res and
\* norm_y = b / H_res the test is 100 (a^2 H^2 + b^2 W^2) <= 81 W^2 H^2,
\* here with the common factor of W_res and H_res divided out
RadiusWithinMax(H_res, W_res, px, py) ==
    LET g == Gcd(W_res, H_res)
        a == ((px * 640 - 320 * W_res) \div 320) * (H_res \div g)
        b == ((py * 480 - 240 * H_res) \div 240) * (W_res \div g)
        c == W_res * (H_res \div g)
    IN  100 * (a * a + b * b) <= (max_radius * max_radius) * (c * c)

\* great_circle_angle = radius * max_angle / max_radius never exceeds
\* max_angle where radius <= max_radius, so valid_mask is that test.
ValidMask(H_res, W_res, px, py) == RadiusWithinMax(H_res, W_res, px, py)

CoordinateGrid(H_res, W_res, px, py) ==
    LET norm_x == NormX(px, W_res)
        norm_y == NormY(py, H_res)
        radius == Sqrt(norm_x * norm_x + norm_y * norm_y)
        great_circle_angle == (radius * max_angle * 10) \div (max_radius * FixedOne)
    IN  [great_circle_angle |-> great_circle_angle,
         azimuth |-> ATan2(norm_y, norm_x),
         valid_mask |-> /\ RadiusWithinMax(H_res, W_res, px, py)
                        /\ great_circle_angle <= max_angle,
         radius |-> radius,
         norm_x |-> norm_x,
         norm_y |-> norm_y]

NoSample == [taken |-> FALSE, great_circle_angle |-> 0, valid_mask |-> FALSE]

(***************************************************************************)
(* The projection slice: directions are drawn from a grid of unit vectors  *)
(* built the way the line drawers of projection_utils.py build them, and   *)
(* from a few vectors off the unit sphere.                                 *)
(***************************************************************************)
AngleSteps == 11
AzimuthSteps == 8

\* x = cos(a), y = sin(a) cos(b), z = sin(a) sin(b): the unit vector at
\* great-circle angle a from the forward axis and azimuth b
SphereDirection(a, b) ==
    <<Cos(a), IntTrunc(Sin(a) * Cos(b), FixedOne), IntTrunc(Sin(a) * Sin(b), FixedOne)>>

UnitDirections ==
    {SphereDirection((i * Quarter) \div AngleSteps, (j * 4 * Quarter) \div AzimuthSteps) :
        i \in 0..(2 * AngleSteps), j \in 0..(AzimuthSteps - 1)}

OffSphere ==
    {<<0, 0, 0>>, <<2 * FixedOne, 0, 0>>, <<2 * FixedOne, FixedOne, -FixedOne>>,
     <<-FixedOne, FixedOne, FixedOne>>, <<1, 0, 3 * FixedOne>>, <<1, 0, -FixedOne>>,
     <<FixedOne \div 2, -3 * FixedOne, 0>>, <<0, FixedOne, FixedOne>>}

Directions == UnitDirections \cup OffSphere

\* a call azimuthal_equidistant_projection(x, y, z)
Project(d) ==
    /\ direction' = d
    /\ screen' = azimuthal_equidistant_projection(d[1], d[2], d[3])
    /\ grid_sample' = NoSample
    /\ UNCHANGED <<cacheVars, blinkVars, paintVars, restVars>>

\* coords = get_coordinate_grids_cached(480, 640), read at the pixel the
\* projection returned
LookupInverse ==
    /\ ~screen[1].none
    /\ ~grid_sample.taken
    /\ LET g == CoordinateGrid(H_proj, W_proj, screen[1].val, screen[2].val) IN
          grid_sample' = [taken |-> TRUE,
                          great_circle_angle |-> g.great_circle_angle,
                          valid_mask |-> g.valid_mask]
    /\ UNCHANGED <<direction, screen, cacheVars, blinkVars, paintVars, restVars>>

(***************************************************************************)
(* IEEE-754 doubles of the blink arithmetic.  Every value blink_state can  *)
(* take is a multiple of 2^-59 not above a few units, so a double is held  *)
(* exactly as sgn * (hi * 2^30 + lo) * 2^-59 with 0 <= lo < 2^30.  Sums    *)
(* and differences are formed exactly and then rounded to 53 significant   *)
(* bits, ties to even, as the hardware does.                               *)
(***************************************************************************)
Limb == 1073741824

Dbl(sgn, hi, lo) == [sgn |-> sgn, hi |-> hi, lo |-> lo]

DZero == Dbl(1, 0, 0)
DOne == Dbl(1, 536870912, 0)

\* The literals of the source, as the doubles Python reads them as:
\* 0.2 = 3602879701896397 * 2^-54 and 0.01 = 5764607523034235 * 2^-59.
\* (a blink_speed of 0.1 would be 3602879701896397 * 2^-55)
blink_speed_slow == Dbl(1, 53687091, 214748368)
blink_speed == Dbl(1, 107374182, 429496736)
BlinkStartValue == Dbl(1, 5368709, 128849019)

\* Comparison of magnitudes, and of doubles.
MagLess(a, b) == a.hi < b.hi \/ (a.hi = b.hi /\ a.lo < b.lo)
IsZero(a) == a.hi = 0 /\ a.lo = 0
DLess(a, b) ==
    IF IsZero(a) /\ IsZero(b) THEN FALSE
    ELSE IF a.sgn # b.sgn THEN a.sgn < b.sgn
    ELSE IF a.sgn = 1 THEN MagLess(a, b)
    ELSE MagLess(b, a)
DEq(a, b) == ~DLess(a, b) /\ ~DLess(b, a)
DLeq(a, b) == ~DLess(b, a)

\* The spacing of doubles at the magnitude <<hi, lo>>, in units of 2^-59:
\* a value of at least 2^(52+k) units (hi at least 2^(22+k)) has its last
\* mantissa bit at 2^k.
RECURSIVE UlpOf(_)
UlpOf(hi) == IF hi < 8388608 THEN 1 ELSE 2 * UlpOf(hi \div 2)

\* Round an exact magnitude to the nearest double, ties to even.
RoundMag(hi, lo) ==
    LET ulp == UlpOf(hi)
        rest == lo % ulp
        down == lo - rest
        up == 2 * rest > ulp \/ (2 * rest = ulp /\ (down \div ulp) % 2 = 1)
        lo2 == IF up THEN down + ulp ELSE down
    IN  [hi |-> hi + lo2 \div Limb, lo |-> lo2 % Limb]

MagAdd(a, b) ==
    RoundMag(a.hi + b.hi + (a.lo + b.lo) \div Limb, (a.lo + b.lo) % Limb)

\* a - b for magnitudes with b <= a
MagSub(a, b) ==
    IF a.lo >= b.lo THEN RoundMag(a.hi - b.hi, a.lo - b.lo)
    ELSE RoundMag(a.hi - b.hi - 1, a.lo + Limb - b.lo)

\* a + b and a - b in double arithmetic
FAdd(a, b) ==
    IF a.sgn = b.sgn THEN
        LET m == MagAdd(a, b) IN Dbl(a.sgn, m.hi, m.lo)
    ELSE IF MagLess(a, b) THEN
        LET m == MagSub(b, a) IN Dbl(b.sgn, m.hi, m.lo)
    ELSE
        LET m == MagSub(a, b) IN
        Dbl(IF m.hi = 0 /\ m.lo = 0 THEN 1 ELSE a.sgn, m.hi, m.lo)

FSub(a, b) == FAdd(a, Dbl(-b.sgn, b.hi, b.lo))

\* Python's min(a, b) and max(a, b): the first argument unless the second
\* is strictly smaller (larger).
FMin(a, b) == IF DLess(b, a) THEN b ELSE a
FMax(a, b) == IF DLess(a, b) THEN b ELSE a


(***************************************************************************)
(* The blink state machine: EyeballRenderer.update_blinking,               *)
(* FullscreenEyeballRenderer.update_blinking and the blink block of        *)
(* gpu_eyeball.main, driven by the main loops of the three scripts.        *)
(* Times are in ms.                                                        *)
(***************************************************************************)
\* Bounds of the blink slice: the clock advances in steps of Quantum up to
\* MaxTicks, and the loop starts up to MaxStartSteps steps after the clock.
Quantum == 500
MaxTicks == 6000
MaxStartSteps == 1

Progs == {"eyeball", "eyeball_fullscreen", "gpu_eyeball"}

\* A scheduler that draws uniform(1.0, 6.0) instead.
BlinkDelaysFromOne == {d \in 1000..6000 : (d - 1000) % Quantum = 0}

\* random.uniform(3.0, 6.0), at the resolution of the clock
BlinkDelays == {d \in 3000..6000 : (d - 3000) % Quantum = 0}

\* next_blink_time as the constructors leave it: 0.0 in EyeballRenderer,
\* 0.5 in FullscreenEyeballRenderer and in gpu_eyeball.main
InitialNextBlinkTime(p) == IF p = "eyeball" THEN 0 ELSE 500

\* The two renderers treat next_blink_time == 0.0 as "not set";
\* gpu_eyeball has no such test.
ReinitialisesZero(p) == p # "gpu_eyeball"

\* update_blinking without the min(1.0, ...) clamp of the closing phase.
update_blinking_unclamped(self, current_time, reinit, u1, u2) ==
    LET nbt == IF reinit /\ self.next_blink_time = 0
                  THEN current_time + u1
                  ELSE self.next_blink_time
        starts == current_time >= nbt /\ DEq(self.blink_state, DZero)
        state == IF starts THEN BlinkStartValue ELSE self.blink_state
        closing == starts \/ self.blink_closing
    IN  IF closing THEN
            LET closed == FAdd(state, blink_speed) IN
            [blink_state |-> closed,
             blink_closing |-> ~DLeq(DOne, closed),
             next_blink_time |-> nbt]
        ELSE IF DLess(DZero, state) THEN
            LET opened == FMax(DZero, FSub(state, blink_speed)) IN
            [blink_state |-> opened,
             blink_closing |-> FALSE,
             next_blink_time |-> IF DLeq(opened, DZero)
                                    THEN current_time + u2
                                    ELSE nbt]
        ELSE
            [blink_state |-> state,
             blink_closing |-> FALSE,
             next_blink_time |-> nbt]

\* One call of update_blinking(current_time) on the fields self, with u1 and
\* u2 the values the two random.uniform calls would return.
update_blinking(self, current_time, reinit, u1, u2) ==
    LET nbt == IF reinit /\ self.next_blink_time = 0
                  THEN current_time + u1
                  ELSE self.next_blink_time
        starts == current_time >= nbt /\ DEq(self.blink_state, DZero)
        state == IF starts THEN BlinkStartValue ELSE self.blink_state
        closing == starts \/ self.blink_closing
    IN  IF closing THEN
            LET closed == FMin(DOne, FAdd(state, blink_speed)) IN
            [blink_state |-> closed,
             blink_closing |-> ~DLeq(DOne, closed),
             next_blink_time |-> nbt]
        ELSE IF DLess(DZero, state) THEN
            LET opened == FMax(DZero, FSub(state, blink_speed)) IN
            [blink_state |-> opened,
             blink_closing |-> FALSE,
             next_blink_time |-> IF DLeq(opened, DZero)
                                    THEN current_time + u2
                                    ELSE nbt]
        ELSE
            [blink_state |-> state,
             blink_closing |-> FALSE,
             next_blink_time |-> nbt]

\* random.uniform is called only on the two paths that assign
\* next_blink_time; elsewhere there is nothing to draw.
DrawIf(called) == IF called THEN BlinkDelays ELSE {0}

\* The renderer's blink fields
Self == [blink_state |-> blink_state, blink_closing |-> blink_closing,
         next_blink_time |-> next_blink_time]

\* The time the frame is drawn for: (get_ticks() - start_time) / 1000.0 in
\* the pygame scripts, the latched t in gpu_eyeball.
CurrentTime == IF prog = "gpu_eyeball" THEN t_now ELSE ticks - start_time

EyeOpen == DEq(blink_state, DZero) /\ ~blink_closing

\* Time passes: clock.tick(), rendering, waiting for the display.
Tick ==
    /\ ticks + Quantum <= MaxTicks
    /\ ticks' = ticks + Quantum
    /\ UNCHANGED <<prog, start_time, pc, t_now, blink_state, blink_closing,
                   next_blink_time, space_event, blink_end>>
    /\ UNCHANGED <<cacheVars, projVars, paintVars, restVars>>

\* The top of `while running:`; gpu_eyeball reads the clock here.
BeginIteration ==
    /\ pc = "top"
    /\ pc' = "events"
    /\ t_now' = IF prog = "gpu_eyeball" THEN ticks - start_time ELSE t_now
    /\ space_event' = "none"
    /\ UNCHANGED <<prog, ticks, start_time, blink_state, blink_closing,
                   next_blink_time, blink_end>>
    /\ UNCHANGED <<cacheVars, projVars, paintVars, restVars>>

\* A KEYDOWN event with key K_SPACE, taken from the event queue.
KeySpace ==
    /\ pc = "events"
    /\ space_event' = IF space_event # "none" THEN space_event
                      ELSE IF EyeOpen THEN "open" ELSE "busy"
    /\ IF prog = "gpu_eyeball"
          THEN /\ next_blink_time' = t_now
               /\ UNCHANGED blink_state
          ELSE /\ next_blink_time' = ticks
               /\ blink_state' = DZero
    /\ UNCHANGED <<prog, ticks, start_time, pc, t_now, blink_closing, blink_end>>
    /\ UNCHANGED <<cacheVars, projVars, paintVars, restVars>>

\* The rest of the iteration: create_eyeball_surface(current_time) calls
\* update_blinking (gpu_eyeball runs its blink block) and draws the frame.
Frame ==
    /\ pc = "events"
    /\ pc' = "top"
    /\ \E u1 \in DrawIf(ReinitialisesZero(prog) /\ next_blink_time = 0),
          u2 \in DrawIf(DLess(DZero, blink_state) /\ ~blink_closing) :
          LET after == update_blinking(Self, CurrentTime,
                                       ReinitialisesZero(prog), u1, u2)
          IN  /\ blink_state' = after.blink_state
              /\ blink_closing' = after.blink_closing
              /\ next_blink_time' = after.next_blink_time
              /\ blink_end' = IF DLess(DZero, blink_state)
                                 /\ DEq(after.blink_state, DZero)
                                 THEN CurrentTime ELSE blink_end
    /\ UNCHANGED <<prog, ticks, start_time, t_now, space_event>>
    /\ UNCHANGED <<cacheVars, projVars, paintVars, restVars>>

(***************************************************************************)
(* Gaze and pupil: update_eye_movement and the key handlers of the three   *)
(* eyeball scripts.  Angles and offsets are integers in units of           *)
(* 1/GazeOne; the pupil size is the IEEE double the handlers compute.      *)
(* eye and target are pairs <<vertical, horizontal>>: <<theta, phi>> in    *)
(* eyeball_core, <<y, x>> in eyeball_fullscreen and gpu_eyeball.           *)
(***************************************************************************)
GazeOne == 1000000

\* math.pi / 6
max_eye_angle == (PiHalfFixed * (GazeOne \div FixedOne)) \div 3
\* max_eye_movement (max_mv in gpu_eyeball) = 0.3
max_eye_movement == (3 * GazeOne) \div 10
\* the arrow keys move the target by 0.1
ArrowStep == GazeOne \div 10

MaxMove(p) == IF p = "eyeball" THEN max_eye_angle ELSE max_eye_movement

\* movement_speed (mv_speed) = 0.05, in hundredths
movement_speed == 5

\* an eye that jumps straight to its target
EaseStepWhole(diff) == diff

\* diff * movement_speed, rounded to the nearest unit
EaseStep(diff) ==
    LET mag == (Abs(diff) * movement_speed + 50) \div 100
    IN  IF diff < 0 THEN -mag ELSE mag

\* Bounds of the exploration
MaxFrames == 3
MaxKeys == 1

\* random.uniform(-max, max), sampled at its two ends
SaccadeTargets(p) == {-MaxMove(p), MaxMove(p)}

\* random.uniform(2.0, 5.0), in ms, sampled at its two ends
SaccadeIntervalsFromOne == {1000, 5000}
SaccadeIntervals == {2000, 5000}

\* main._last_move before its first assignment (hasattr is false)
Unset == -1

\* the condition of the `if` that opens update_eye_movement
SaccadeDue(self, current_time) ==
    \/ self.last_movement_time = Unset
    \/ current_time - self.last_movement_time > self.movement_interval

\* update_eye_movement(current_time); tv, th and ivl are the three values
\* random.uniform returns when a new target is chosen.
update_eye_movement(self, current_time, tv, th, ivl) ==
    LET due == SaccadeDue(self, current_time)
        tgt == IF due THEN <<tv, th>> ELSE self.target
    IN  [eye |-> <<self.eye[1] + EaseStep(tgt[1] - self.eye[1]),
                   self.eye[2] + EaseStep(tgt[2] - self.eye[2])>>,
         target |-> tgt,
         last_movement_time |-> IF due THEN current_time
                                ELSE self.last_movement_time,
         movement_interval |-> IF due THEN ivl ELSE self.movement_interval]

GazeSelf == [eye |-> eye, target |-> target,
             last_movement_time |-> last_movement_time,
             movement_interval |-> movement_interval]

\* The arrow-key handlers of eyeball.py and eyeball_fullscreen.py:
\* UP / DOWN move the vertical target, LEFT / RIGHT the horizontal one.
ArrowUnclamped(p, tgt, key) ==
    IF key = "up" THEN <<tgt[1] - ArrowStep, tgt[2]>>
    ELSE IF key = "down" THEN <<tgt[1] + ArrowStep, tgt[2]>>
    ELSE IF key = "left" THEN <<tgt[1], tgt[2] - ArrowStep>>
    ELSE <<tgt[1], tgt[2] + ArrowStep>>

Arrow(p, tgt, key) ==
    IF key = "up" THEN <<Max(-MaxMove(p), tgt[1] - ArrowStep), tgt[2]>>
    ELSE IF key = "down" THEN <<Min(MaxMove(p), tgt[1] + ArrowStep), tgt[2]>>
    ELSE IF key = "left" THEN <<tgt[1], Max(-MaxMove(p), tgt[2] - ArrowStep)>>
    ELSE <<tgt[1], Min(MaxMove(p), tgt[2] + ArrowStep)>>

\* Pupil sizes, as doubles: pupil_radius of EyeballRenderer starts at 0.12
\* and is kept within [0.08, 0.16] in steps of 0.01; pupil_scale starts at
\* 1.0 and is kept within [0.6, 1.4] in steps of 0.1.
MinPupil(p) == IF p = "eyeball" THEN Dbl(1, 42949672, 1030792152)
                                ELSE Dbl(1, 322122547, 214748352)
MaxPupil(p) == IF p = "eyeball" THEN Dbl(1, 85899345, 987842480)
                                ELSE Dbl(1, 751619276, 858993408)
PupilStep(p) == IF p = "eyeball" THEN Dbl(1, 5368709, 128849019)
                                 ELSE Dbl(1, 53687091, 214748368)
InitialPupil(p) == IF p = "eyeball" THEN Dbl(1, 64424509, 472446400) ELSE DOne

\* The `=` / `+` and `-` handlers
PupilKeyUnclamped(p, size, key) ==
    IF key = "plus" THEN FAdd(size, PupilStep(p)) ELSE FSub(size, PupilStep(p))

PupilKey(p, size, key) ==
    IF key = "plus" THEN FMin(MaxPupil(p), FAdd(size, PupilStep(p)))
    ELSE FMax(MinPupil(p), FSub(size, PupilStep(p)))

\* KEYDOWN with an arrow key; gpu_eyeball has no handler for these.
KeyArrow(key) ==
    /\ pc = "events"
    /\ prog # "gpu_eyeball"
    /\ keys < MaxKeys
    /\ target' = Arrow(prog, target, key)
    /\ last_key' = key
    /\ keys' = keys + 1
    /\ UNCHANGED <<eye, last_movement_time, movement_interval, pupil_value, frames,
                   saccade_time, saccade_gap>>
    /\ UNCHANGED <<cacheVars, projVars, blinkVars, paintVars, shVars, loopVars, gnomVars>>

\* KEYDOWN with K_r: look straight ahead.
KeyR ==
    /\ pc = "events"
    /\ keys < MaxKeys
    /\ eye' = <<0, 0>>
    /\ target' = <<0, 0>>
    /\ last_key' = "r"
    /\ keys' = keys + 1
    /\ UNCHANGED <<last_movement_time, movement_interval, pupil_value, frames,
                   saccade_time, saccade_gap>>
    /\ UNCHANGED <<cacheVars, projVars, blinkVars, paintVars, shVars, loopVars, gnomVars>>

\* KEYDOWN with K_EQUALS / K_PLUS or K_MINUS.
KeyPupil(key) ==
    /\ pc = "events"
    /\ pupil_value' = PupilKey(prog, pupil_value, key)
    /\ last_key' = key
    /\ UNCHANGED <<eye, target, last_movement_time, movement_interval, frames,
                   keys, saccade_time, saccade_gap>>
    /\ UNCHANGED <<cacheVars, projVars, blinkVars, paintVars, shVars, loopVars, gnomVars>>

\* The rest of the iteration as far as the gaze goes:
\* create_eyeball_surface(current_time) calls update_eye_movement
\* (gpu_eyeball runs its saccade block).  update_blinking, which the same
\* call runs on the blink fields alone, is the action Frame.
GazeFrame ==
    /\ pc = "events"
    /\ frames < MaxFrames
    /\ pc' = "top"
    /\ frames' = frames + 1
    /\ \E tv \in IF SaccadeDue(GazeSelf, CurrentTime)
                    THEN SaccadeTargets(prog) ELSE {0},
          th \in IF SaccadeDue(GazeSelf, CurrentTime)
                    THEN SaccadeTargets(prog) ELSE {0},
          ivl \in IF SaccadeDue(GazeSelf, CurrentTime)
                     THEN SaccadeIntervals ELSE {0} :
          LET after == update_eye_movement(GazeSelf, CurrentTime, tv, th, ivl)
          IN  /\ eye' = after.eye
              /\ target' = after.target
              /\ last_movement_time' = after.last_movement_time
              /\ movement_interval' = after.movement_interval
    /\ saccade_time' = IF SaccadeDue(GazeSelf, CurrentTime)
                          THEN CurrentTime ELSE saccade_time
    /\ saccade_gap' = IF SaccadeDue(GazeSelf, CurrentTime) /\ saccade_time >= 0
                         THEN CurrentTime - saccade_time ELSE saccade_gap
    /\ last_key' = "none"
    /\ UNCHANGED <<pupil_value, keys>>
    /\ UNCHANGED <<prog, ticks, start_time, t_now, blink_state, blink_closing,
                   next_blink_time, space_event, blink_end>>
    /\ UNCHANGED <<cacheVars, projVars, paintVars, shVars, loopVars, gnomVars>>

(***************************************************************************)
(* The painters: EyeballRenderer.create_eyeball_surface on the             *)
(* (H // 4) x (W // 4) grid and                                            *)
(* FullscreenEyeballRenderer.create_eyeball_surface on the                 *)
(* (H // decimation) x (W // decimation) grid.  A frame is painted layer   *)
(* over layer; `painted` records the layer whose colour a pixel ends with. *)
(* The sclera and iris layers are shaded (the sclera darkened by at most a *)
(* tenth, the iris mixed from iris_base_color and iris_dark_color), the    *)
(* other layers are flat colours.  Lengths are in 1/100 of the half-frame  *)
(* for the renderer's fields and in 1/FixedOne for grid coordinates.       *)
(***************************************************************************)
sclera_color == <<248, 248, 255>>
iris_base_color == <<34, 139, 34>>
iris_dark_color == <<0, 100, 0>>
pupil_color == <<0, 0, 0>>
eyelid_color == <<205, 133, 63>>

\* The colour a layer shows; for the shaded layers, the colour they shade.
LayerColor(layer) ==
    CASE layer = "eyelid" -> eyelid_color
      [] layer = "pupil" -> pupil_color
      [] layer = "iris" -> iris_base_color
      [] layer = "sclera" -> sclera_color
      [] OTHER -> <<0, 0, 0>>

\* round(x * 100) of a double x
Hundredths(a) ==
    a.sgn * (((a.hi \div 1024) * 100 + 262144) \div 524288)

\* H_low, W_low = H // 4, W // 4
H_low == H \div 4
W_low == W \div 4

iris_radius == 45

\* (norm - center)^2 summed over x and y <= r^2 on the H_low x W_low grid,
\* decided exactly: norm_x - cx = a / 800 with a = 5 (px - 160) - 8 cx and
\* norm_y - cy = b / 900 with b = 10 (py - 90) - 9 cy, so that the test is
\* (9 a)^2 + (8 b)^2 <= (72 r)^2.
DistanceWithin(px, py, center, r) ==
    LET a == 5 * (px - W_low \div 2) - (center[1] * (W_low \div 2)) \div 20
        b == 10 * (py - H_low \div 2) - (center[2] * (H_low \div 2)) \div 10
    IN  81 * a * a + 64 * b * b <= 5184 * r * r

\* apply_blink_effect's eyelid_mask without the valid_mask: norm_y beyond
\* blink_threshold = 0.3 * (1 - blink_state) on either side, decided
\* exactly with norm_y = (2 py - H_low) / H_low.
CoreEyelidMask(py, blink) ==
    LET blink_threshold == 30 * (100 - Hundredths(blink))
        num == (2 * py - H_low) * FixedOne
    IN  num > blink_threshold * H_low \/ num < -(blink_threshold * H_low)

\* a renderer that draws the pupil before the iris
CorePaintedPupilFirst(px, py, center, pupil_radius, blink) ==
    LET valid_mask == ValidMask(H_low, W_low, px, py)
        pupil_mask == valid_mask /\ DistanceWithin(px, py, center, pupil_radius)
        pupil == IF pupil_mask THEN "pupil" ELSE "sclera"
        iris_mask == valid_mask /\ DistanceWithin(px, py, center, iris_radius)
        iris == IF iris_mask THEN "iris" ELSE pupil
        eyelid_mask == valid_mask /\ CoreEyelidMask(py, blink)
    IN  IF ~valid_mask THEN "black"
        ELSE IF DLess(DZero, blink) /\ eyelid_mask THEN "eyelid" ELSE iris

\* create_eyeball_surface after the two updates: render_sclera,
\* render_iris, render_pupil, apply_blink_effect, then the invalid pixels.
CorePainted(px, py, center, pupil_radius, blink) ==
    LET valid_mask == ValidMask(H_low, W_low, px, py)
        sclera == IF valid_mask THEN "sclera" ELSE "black"
        iris_mask == valid_mask /\ DistanceWithin(px, py, center, iris_radius)
        iris == IF iris_mask THEN "iris" ELSE sclera
        pupil_mask == valid_mask /\ DistanceWithin(px, py, center, pupil_radius)
        pupil == IF pupil_mask THEN "pupil" ELSE iris
        eyelid_mask == valid_mask /\ CoreEyelidMask(py, blink)
        blinked == IF DLeq(blink, DZero) THEN pupil
                   ELSE IF eyelid_mask THEN "eyelid" ELSE pupil
    IN  IF ~valid_mask THEN "black" ELSE blinked

\* The fullscreen renderer's geometry, in 1/100
iris_radius_x == 30
iris_radius_y == 40
pupil_radius_x == 8
pupil_radius_y == 11

\* H_render, W_render = H // decimation, W // decimation
H_render(d) == H \div d
W_render(d) == W \div d

\* norm = (coords - size / 2) / (size / 2), in fixed point
NormFull(p, size) ==
    LET num == 2 * p - size
        mag == MulDiv(Abs(num), FixedOne, size)
    IN  IF num >= 0 THEN mag ELSE -mag

\* ((norm_x - cx) / rx)^2 + ((norm_y - cy) / ry)^2 <= 1.0, with the two
\* quotients taken to three decimals; rx and ry are in 1/FixedOne.
EllipseMask(norm_x, norm_y, center, rx, ry) ==
    LET qx == (Abs(norm_x - 100 * center[1]) * 1000) \div rx
        qy == (Abs(norm_y - 100 * center[2]) * 1000) \div ry
    IN  qx * qx + qy * qy <= 1000 * 1000

\* The bounding box of the iris: margin = max(iris_radius_x, iris_radius_y)
\* * 1.2, and the four int(...) bounds clipped to the grid.
InROI(px, py, center, d) ==
    LET margin == (Max(iris_radius_x, iris_radius_y) * 12) \div 10
        x_min == Max(0, IntTrunc((center[1] + 100 - margin) * W_render(d), 200))
        x_max == Min(W_render(d),
                     IntTrunc((center[1] + 100 + margin) * W_render(d), 200))
        y_min == Max(0, IntTrunc((center[2] + 100 - margin) * H_render(d), 200))
        y_max == Min(H_render(d),
                     IntTrunc((center[2] + 100 + margin) * H_render(d), 200))
    IN  x_min <= px /\ px < x_max /\ y_min <= py /\ py < y_max

\* blink_steps precomputed eyelid masks, keyed by i / blink_steps
blink_steps == 20

\* round(blink_state * blink_steps), the i of the key looked up
BlinkIndex(blink) ==
    blink.sgn * (((blink.hi \div 1024) * blink_steps + 262144) \div 524288)

\* eyelid_masks[i / blink_steps] at row py: built for i with
\* i / blink_steps > 0.0 from blink_threshold = 0.6 * (1 - i / blink_steps),
\* decided exactly with norm_y = (2 py - H_render) / H_render.
FullEyelidMask(py, i, d) ==
    LET num == (2 * py - H_render(d)) * 100
        thr == 3 * (blink_steps - i) * H_render(d)
    IN  i \in 1..blink_steps /\ (num > thr \/ num < -thr)

\* FullscreenEyeballRenderer.create_eyeball_surface after the two updates:
\* the sclera image, the iris and the pupil inside the ROI, the eyelids.
FullscreenPainted(px, py, center, pupil_scale, blink, d) ==
    LET norm_x == NormFull(px, W_render(d))
        norm_y == NormFull(py, H_render(d))
        roi == InROI(px, py, center, d)
        iris_mask == roi /\ EllipseMask(norm_x, norm_y, center,
                                        100 * iris_radius_x, 100 * iris_radius_y)
        iris == IF iris_mask THEN "iris" ELSE "sclera"
        pupil_mask == roi /\ EllipseMask(norm_x, norm_y, center,
                                         pupil_radius_x * pupil_scale,
                                         pupil_radius_y * pupil_scale)
        pupil == IF pupil_mask THEN "pupil" ELSE iris
    IN  IF DLess(DZero, blink) /\ FullEyelidMask(py, BlinkIndex(blink), d)
           THEN "eyelid" ELSE pupil

\* The lid test of gpu_eyeball's fragment shader at row py of the H rows:
\* u_blink > 0.0 && (uv.y > thr || uv.y < -thr), thr = 0.6 * (1 - u_blink),
\* decided exactly with uv.y = (2 py + 1 - H) / H at the pixel's centre.
GpuEyelidMask(py, blink) ==
    LET num == (2 * py + 1 - H) * 1000
        thr == 6 * (100 - Hundredths(blink)) * H
    IN  DLess(DZero, blink) /\ (num > thr \/ num < -thr)

\* The fragment shader's main() at the fragment of pixel <<px, py>>: the
\* lid returns early, the iris replaces the sclera, the pupil the iris.
GpuPainted(px, py, center, pupil_scale, blink) ==
    LET uv_x == NormFull(2 * px + 1, 2 * W)
        uv_y == NormFull(2 * py + 1, 2 * H)
        sclera == "sclera"
        iris == IF EllipseMask(uv_x, uv_y, center,
                               100 * iris_radius_x, 100 * iris_radius_y)
                   THEN "iris" ELSE sclera
        pupil == IF EllipseMask(uv_x, uv_y, center,
                                pupil_radius_x * pupil_scale,
                                pupil_radius_y * pupil_scale)
                    THEN "pupil" ELSE iris
    IN  IF GpuEyelidMask(py, blink) THEN "eyelid" ELSE pupil

(***************************************************************************)
(* spherical_harmonics.py: the colour map and the frame.  Values are       *)
(* integers in units of 1/ValueOne; the channels are computed exactly.     *)
(***************************************************************************)
ValueOne == 1000

\* values_to_colors without np.clip
values_to_colors_unclipped(value) ==
    LET t == value + ValueOne
    IN  IF t < ValueOne
           THEN <<(t * 255) \div ValueOne, (t * 255) \div ValueOne, 255>>
           ELSE <<255, ((2 * ValueOne - t) * 255) \div ValueOne,
                       ((2 * ValueOne - t) * 255) \div ValueOne>>

\* values_to_colors(values) with min_val = -1 and max_val = 1, on one
\* value: normalized = (value + 1) / 2 clipped to [0, 1]; below 0.5 the
\* colour is (t1 * 255, t1 * 255, 255) with t1 = normalized * 2, from 0.5
\* on it is (255, (1 - t2) * 255, (1 - t2) * 255) with t2 = (normalized
\* - 0.5) * 2; astype(np.uint8) truncates.  twice == normalized * 2.
values_to_colors(value) ==
    LET twice == Min(2 * ValueOne, Max(0, value + ValueOne))
        t1 == twice
        t2 == twice - ValueOne
    IN  IF twice < ValueOne
           THEN <<(t1 * 255) \div ValueOne, (t1 * 255) \div ValueOne, 255>>
           ELSE <<255, ((ValueOne - t2) * 255) \div ValueOne,
                       ((ValueOne - t2) * 255) \div ValueOne>>

\* a surface that leaves the pixels outside the hemisphere as the colour
\* map made them
HarmonicsPaintedUnmasked(px, py, Y_real) == values_to_colors(Y_real)

\* create_spherical_harmonics_surface at pixel <<px, py>> of the low
\* resolution grid, Y_real being the real part of sph_harm there (0 where
\* valid_mask is false): the colour map, then the invalid pixels.
HarmonicsPainted(px, py, Y_real) ==
    IF ValidMask(H_low, W_low, px, py) THEN values_to_colors(Y_real)
    ELSE <<0, 0, 0>>

\* Bound: sample values per unit
ValueSteps == 40

\* Real values from -1.5 to 1.5
ValueSamples ==
    {(k * ValueOne) \div ValueSteps :
        k \in -((3 * ValueSteps) \div 2)..((3 * ValueSteps) \div 2)}

\* values_to_colors applied to one value
ValuesToColors(value) ==
    /\ sh_value' = value
    /\ sh_colour' = values_to_colors(value)
    /\ UNCHANGED <<cacheVars, projVars, blinkVars, paintVars, gazeVars, loopVars, gnomVars>>

(***************************************************************************)
(* The frame loops: `while running:` of the seven scripts that render      *)
(* frames.  An iteration is the loop test, the pass over                   *)
(* pygame.event.get() and the frame, in the order the script has them.     *)
(***************************************************************************)
Scripts == Progs \cup {"spherical_harmonics", "wireframe_globe", "sdl_direct",
                       "mpl-sdl-example"}

\* Bounds: events waiting in the queue, and where the observers stop
MaxQueue == 2
MaxCount == 3

\* The parts of an iteration, in the script's order: mpl-sdl-example.py
\* never calls pygame.event.get(); sdl_direct.py draws the frame first
\* and reads the events after it; the others read the events first.
LoopOrder(script) ==
    IF script = "mpl-sdl-example" THEN <<"frame">>
    ELSE IF script = "sdl_direct" THEN <<"frame", "events">>
    ELSE <<"events", "frame">>

\* where the iteration goes after one of its parts
PhaseAfter(script, phase) ==
    IF LoopOrder(script)[Len(LoopOrder(script))] = phase THEN "top"
    ELSE LoopOrder(script)[2]

\* the events on which the script's handler assigns running = False
StopsOn(script) ==
    IF script = "sdl_direct" THEN {"QUIT", "ESCAPE"} ELSE {"QUIT", "ESCAPE", "q"}

\* The window manager or the keyboard posts an event.
PostEvent(e) ==
    /\ pc # "exited"
    /\ Len(event_queue) < MaxQueue
    /\ event_queue' = Append(event_queue, e)
    /\ passes_since_post' = IF e \in {"QUIT", "ESCAPE"} /\ passes_since_post = -1
                               THEN 0 ELSE passes_since_post
    /\ UNCHANGED <<running, frames_not_running>>
    /\ UNCHANGED <<cacheVars, projVars, blinkVars, paintVars, gazeVars, shVars, gnomVars>>

\* `while running:`
LoopTest ==
    /\ pc = "top"
    /\ pc' = IF running THEN LoopOrder(prog)[1] ELSE "exited"
    /\ passes_since_post' = IF running /\ passes_since_post >= 0
                               THEN Min(MaxCount, passes_since_post + 1)
                               ELSE passes_since_post
    /\ UNCHANGED <<running, event_queue, frames_not_running>>
    /\ UNCHANGED <<prog, ticks, start_time, t_now, blink_state, blink_closing,
                   next_blink_time, space_event, blink_end>>
    /\ UNCHANGED <<cacheVars, projVars, paintVars, gazeVars, shVars, gnomVars>>

\* `for event in pygame.event.get():` with the handlers of QUIT and of the
\* keys that stop the loop; the queue is emptied.
HandleEvents ==
    /\ pc = "events"
    /\ pc' = PhaseAfter(prog, "events")
    /\ running' = (running /\ \A i \in 1..Len(event_queue) :
                                  event_queue[i] \notin StopsOn(prog))
    /\ event_queue' = <<>>
    /\ UNCHANGED <<passes_since_post, frames_not_running>>
    /\ UNCHANGED <<prog, ticks, start_time, t_now, blink_state, blink_closing,
                   next_blink_time, space_event, blink_end>>
    /\ UNCHANGED <<cacheVars, projVars, paintVars, gazeVars, shVars, gnomVars>>

\* The rest of the iteration: the frame is drawn and flipped.
RenderFrame ==
    /\ pc = "frame"
    /\ pc' = PhaseAfter(prog, "frame")
    /\ frames_not_running' = IF running THEN frames_not_running
                              ELSE Min(MaxCount, frames_not_running + 1)
    /\ UNCHANGED <<running, event_queue, passes_since_post>>
    /\ UNCHANGED <<prog, ticks, start_time, t_now, blink_state, blink_closing,
                   next_blink_time, space_event, blink_end>>
    /\ UNCHANGED <<cacheVars, projVars, paintVars, gazeVars, shVars, gnomVars>>

(***************************************************************************)
(* The gnomonic mappings: the screen-to-sphere grid of gnomonic.py and of  *)
(* wireframe_globe.gnomonic_projection, and wireframe_globe's              *)
(* sphere_to_screen.  Plane coordinates are in 1/FixedOne.  A call either  *)
(* returns ("ok") or raises ("NameError").                                 *)
(***************************************************************************)
\* The names wireframe_globe.py binds at module level: its imports, H, W
\* and its functions.  SCALE_X and SCALE_Y, which gnomonic_projection and
\* sphere_to_screen read, are defined in projection_utils.py and are not
\* imported.
WireframeGlobals ==
    {"pygame", "np", "sys", "os", "math", "H", "W",
     "draw_azimuth_ring_polar_1280", "draw_longitude_line_polar_1280",
     "gnomonic_projection", "sphere_to_screen", "draw_latitude_line",
     "draw_longitude_line", "main"}

\* The grid of a gnomonic plane with half-extents half_u and half_v at
\* pixel <<px, py>>: u = linspace(-half_u, half_u, W)[px], v likewise,
\* (X, Y, Z) = (1, u, v) / norm; mask = X < 0; theta = arccos(Z),
\* phi = arctan2(Y, X).
GnomonicAngles(px, py, half_u, half_v) ==
    LET u == IntTrunc(2 * half_u * px, W - 1) - half_u
        v == IntTrunc(2 * half_v * py, H - 1) - half_v
        norm == Sqrt(FixedOne * FixedOne + u * u + v * v)
        X == IntTrunc(FixedOne * FixedOne, norm)
        Y == IntTrunc(u * FixedOne, norm)
        Z == IntTrunc(v * FixedOne, norm)
    IN  [status |-> IF X < 0 THEN "masked" ELSE "ok",
         theta |-> ACos(Max(-FixedOne, Min(FixedOne, Z))),
         phi |-> ATan2(Y, X)]

\* <<base_aspect * SCALE_X * fov_scale, SCALE_Y * fov_scale>>, with
\* projection_utils' SCALE_X and SCALE_Y (in hundredths)
HalfExtent == <<(4 * SCALE_X * 2 * (FixedOne \div 100)) \div 3,
                SCALE_Y * 2 * (FixedOne \div 100)>>

\* wireframe_globe.gnomonic_projection(), at one pixel: line 79 reads
\* SCALE_X before anything is computed.
gnomonic_projection(px, py) ==
    IF {"SCALE_X", "SCALE_Y"} \subseteq WireframeGlobals
       THEN GnomonicAngles(px, py, HalfExtent[1], HalfExtent[2])
       ELSE [status |-> "NameError", theta |-> 0, phi |-> 0]

\* wireframe_globe.sphere_to_screen(theta, phi, rotation_offset): the
\* direction with the pole forward, (None, None) when it lies behind, and
\* then the screen position, which reads SCALE_X.
sphere_to_screen(theta, phi, rotation_offset) ==
    LET phi_rotated == phi + rotation_offset
        x == Cos(theta)
        y == IntTrunc(Sin(phi_rotated) * Sin(theta), FixedOne)
        z == IntTrunc(Cos(phi_rotated) * Sin(theta), FixedOne)
        u == IntTrunc(y * FixedOne, x)
        v == IntTrunc(z * FixedOne, x)
        screen_x == IntTrunc((u + HalfExtent[1]) * (W \div 2), HalfExtent[1])
        screen_y == IntTrunc((HalfExtent[2] - v) * (H \div 2), HalfExtent[2])
    IN  IF x <= 0 THEN [status |-> "ok", pixel |-> NoneNone]
        ELSE IF ~({"SCALE_X", "SCALE_Y"} \subseteq WireframeGlobals)
           THEN [status |-> "NameError", pixel |-> NoneNone]
        ELSE IF 0 <= screen_x /\ screen_x < W /\ 0 <= screen_y /\ screen_y < H
           THEN [status |-> "ok", pixel |-> <<Some(screen_x), Some(screen_y)>>]
        ELSE [status |-> "ok", pixel |-> NoneNone]

\* Bound: sample pixels per axis
GnomonicSteps == 6

\* gnomonic.py, run as a script: THETA and PHI at one pixel
GnomonicScript(px, py) ==
    /\ gn_pixel' = <<px, py>>
    /\ gn_angles' = GnomonicAngles(px, py, FixedOne, FixedOne)
    /\ gn_screen' = [status |-> "none", pixel |-> NoneNone]
    /\ UNCHANGED <<cacheVars, projVars, blinkVars, paintVars, gazeVars, shVars,
                   loopVars>>

\* theta, phi, mask = gnomonic_projection(), looked at at one pixel
GnomonicProjection(px, py) ==
    /\ gn_pixel' = <<px, py>>
    /\ gn_angles' = gnomonic_projection(px, py)
    /\ gn_screen' = [status |-> "none", pixel |-> NoneNone]
    /\ UNCHANGED <<cacheVars, projVars, blinkVars, paintVars, gazeVars, shVars,
                   loopVars>>

\* sphere_to_screen(theta, phi) on the angles of the pixel
SphereToScreen ==
    /\ gn_angles.status = "ok"
    /\ gn_screen' = sphere_to_screen(gn_angles.theta, gn_angles.phi, 0)
    /\ UNCHANGED <<gn_pixel, gn_angles>>
    /\ UNCHANGED <<cacheVars, projVars, blinkVars, paintVars, gazeVars, shVars,
                   loopVars>>

(***************************************************************************)
(* The painter slice: a renderer in any state its updates can leave it in, *)
(* and one pixel of the frame it paints.                                   *)
(***************************************************************************)
\* Bounds: iris centres per axis on each side of the middle, and sample
\* pixels per axis (the middle row and column are always sampled).
GazeSteps == 1
PixelSteps == 4

\* The blink states a blink passes through, from a renderer state on.
RECURSIVE BlinkOrbit(_, _)
BlinkOrbit(self, fuel) ==
    IF fuel = 0 THEN {}
    ELSE {self.blink_state} \cup
         BlinkOrbit(update_blinking(self, 0, FALSE, 1, 1), fuel - 1)

\* Every value blink_state takes: a blink that update_blinking started,
\* and one restarted from 0.0 by SPACE in its closing phase.
BlinkValues ==
    BlinkOrbit([blink_state |-> DZero, blink_closing |-> FALSE,
                next_blink_time |-> 0], 13)
    \cup BlinkOrbit([blink_state |-> DZero, blink_closing |-> TRUE,
                     next_blink_time |-> 1], 13)

\* iris_center_x and iris_center_y within max_eye_movement = 0.3 (and
\* within 0.8 * max_eye_angle of EyeballRenderer)
IrisCenters == {(k * 30) \div GazeSteps : k \in -GazeSteps..GazeSteps}

\* pupil_radius (1/100) of EyeballRenderer, pupil_scale (1/100) of
\* FullscreenEyeballRenderer: the smallest, the initial and the largest
PupilSizes(p) == IF p = "eyeball" THEN {8, 12, 16} ELSE {60, 100, 140}

SampleCoords(size) ==
    {(k * (size - 1)) \div PixelSteps : k \in 0..PixelSteps} \cup {size \div 2}

\* The frame of eyeball.py, one pixel of it
PaintCore(px, py) ==
    /\ prog = "eyeball"
    /\ painted = "none"
    /\ pixel' = <<px, py>>
    /\ painted' = CorePainted(px, py, iris_center, pupil_size, blink_state)
    /\ UNCHANGED <<self_decimation, iris_center, pupil_size>>
    /\ UNCHANGED <<cacheVars, projVars, blinkVars, restVars>>

\* The frame of eyeball_fullscreen.py, one pixel of it
PaintFullscreen(d, px, py) ==
    /\ prog = "eyeball_fullscreen"
    /\ d = self_decimation
    /\ painted = "none"
    /\ pixel' = <<px, py>>
    /\ painted' = FullscreenPainted(px, py, iris_center, pupil_size,
                                    blink_state, d)
    /\ UNCHANGED <<self_decimation, iris_center, pupil_size>>
    /\ UNCHANGED <<cacheVars, projVars, blinkVars, restVars>>

\* The frame of spherical_harmonics.py, one pixel of it; sph_harm may
\* return any value for a pixel of the hemisphere.
PaintHarmonics(px, py) ==
    /\ prog = "spherical_harmonics"
    /\ painted = "none"
    /\ pixel' = <<px, py>>
    /\ painted' = IF ValidMask(H_low, W_low, px, py) THEN "harmonic" ELSE "black"
    /\ \E Y_real \in IF ValidMask(H_low, W_low, px, py)
                         THEN ValueSamples ELSE {0} :
          /\ sh_value' = Y_real
          /\ sh_colour' = HarmonicsPainted(px, py, Y_real)
    /\ UNCHANGED <<self_decimation, iris_center, pupil_size>>
    /\ UNCHANGED <<cacheVars, projVars, blinkVars, gazeVars, loopVars, gnomVars>>

\* The frame of gpu_eyeball.py, one fragment of it
PaintGpu(px, py) ==
    /\ prog = "gpu_eyeball"
    /\ painted = "none"
    /\ pixel' = <<px, py>>
    /\ painted' = GpuPainted(px, py, iris_center, pupil_size, blink_state)
    /\ UNCHANGED <<self_decimation, iris_center, pupil_size>>
    /\ UNCHANGED <<cacheVars, projVars, blinkVars, restVars>>

(***************************************************************************)
(* The specifications.  Each slice starts with the other slices idle and   *)
(* leaves them unchanged.                                                  *)
(***************************************************************************)
IdleBlink ==
    /\ prog = "eyeball"
    /\ ticks = 0
    /\ start_time = 0
    /\ pc = "top"
    /\ t_now = 0
    /\ blink_state = DZero
    /\ blink_closing = FALSE
    /\ next_blink_time = 0
    /\ space_event = "none"
    /\ blink_end = -1

IdlePaint ==
    /\ self_decimation = 4
    /\ iris_center = <<0, 0>>
    /\ pupil_size = 12
    /\ pixel = <<0, 0>>
    /\ painted = "none"

IdleGaze ==
    /\ eye = <<0, 0>>
    /\ target = <<0, 0>>
    /\ last_movement_time = 0
    /\ movement_interval = 2000
    /\ pupil_value = DOne
    /\ last_key = "none"
    /\ frames = 0
    /\ keys = 0
    /\ saccade_time = -1
    /\ saccade_gap = -1

IdleSh ==
    /\ sh_value = 0
    /\ sh_colour = <<>>

IdleLoop ==
    /\ running = TRUE
    /\ event_queue = <<>>
    /\ passes_since_post = -1
    /\ frames_not_running = 0

IdleGnomonic ==
    /\ gn_pixel = <<0, 0>>
    /\ gn_angles = [status |-> "none", theta |-> 0, phi |-> 0]
    /\ gn_screen = [status |-> "none", pixel |-> NoneNone]

IdleRest == IdleGaze /\ IdleSh /\ IdleLoop /\ IdleGnomonic

IdleProj ==
    /\ direction = <<0, 0, 0>>
    /\ screen = NoneNone
    /\ grid_sample = NoSample

IdleCache ==
    /\ module = "eyeball_core"
    /\ coord_cache = <<>>
    /\ returned = NoEntry
    /\ call_log = <<>>
    /\ build_log = <<>>

InitCache ==
    /\ IdleProj /\ IdleBlink /\ IdlePaint /\ IdleRest
    /\ module \in Modules
    /\ coord_cache = <<>>
    /\ returned = NoEntry
    /\ call_log = <<>>
    /\ build_log = <<>>

NextCache ==
    \/ \E H_res \in ResolutionsH, W_res \in ResolutionsW :
          GetCoordinateGridsCached(H_res, W_res)
    \/ \E decimation \in 1..MaxDecimation :
          GetFullscreenCoordsCached(decimation)

SpecCache == InitCache /\ [][NextCache]_vars

InitProj == IdleProj /\ IdleCache /\ IdleBlink /\ IdlePaint /\ IdleRest

NextProj ==
    \/ \E d \in Directions : Project(d)
    \/ LookupInverse

SpecProj == InitProj /\ [][NextProj]_vars

\* The scripts after construction, about to enter the main loop.
InitBlink ==
    /\ IdleCache /\ IdleProj /\ IdlePaint /\ IdleRest
    /\ prog \in Progs
    /\ start_time \in {k * Quantum : k \in 0..MaxStartSteps}
    /\ ticks = start_time
    /\ pc = "top"
    /\ t_now = 0
    /\ blink_state = DZero
    /\ blink_closing = FALSE
    /\ next_blink_time = InitialNextBlinkTime(prog)
    /\ space_event = "none"
    /\ blink_end = -1

NextBlink == Tick \/ BeginIteration \/ KeySpace \/ Frame

SpecBlink == InitBlink /\ [][NextBlink]_vars

\* The same scripts when no key is pressed.
NextBlinkAuto == Tick \/ BeginIteration \/ Frame

SpecBlinkAuto == InitBlink /\ [][NextBlinkAuto]_vars

\* A renderer after its updates, and the frame not yet looked at.
InitPaint ==
    /\ IdleCache /\ IdleProj /\ IdleRest
    /\ prog \in Progs \cup {"spherical_harmonics"}
    /\ ticks = 0 /\ start_time = 0 /\ pc = "top" /\ t_now = 0
    /\ blink_state \in IF prog \in Progs THEN BlinkValues ELSE {DZero}
    /\ blink_closing = FALSE
    /\ next_blink_time = InitialNextBlinkTime(prog)
    /\ space_event = "none"
    /\ blink_end = -1
    /\ self_decimation \in IF prog = "eyeball_fullscreen"
                              THEN 3..MaxDecimation ELSE {4}
    /\ iris_center \in IF prog \in Progs THEN IrisCenters \X IrisCenters
                                         ELSE {<<0, 0>>}
    /\ pupil_size \in IF prog \in Progs THEN PupilSizes(prog) ELSE {12}
    /\ pixel = <<0, 0>>
    /\ painted = "none"

NextPaint ==
    \/ \E px \in SampleCoords(W_low), py \in SampleCoords(H_low) :
          PaintCore(px, py)
    \/ \E d \in 1..MaxDecimation :
          \E px \in SampleCoords(W_render(d)), py \in SampleCoords(H_render(d)) :
             PaintFullscreen(d, px, py)
    \/ \E px \in SampleCoords(W), py \in SampleCoords(H) :
          PaintGpu(px, py)
    \/ \E px \in SampleCoords(W_low), py \in SampleCoords(H_low) :
          PaintHarmonics(px, py)

SpecPaint == InitPaint /\ [][NextPaint]_vars

\* A script that has just set running = True
InitLoop ==
    /\ IdleCache /\ IdleProj /\ IdlePaint /\ IdleGaze /\ IdleSh /\ IdleLoop
    /\ IdleGnomonic
    /\ prog \in Scripts
    /\ ticks = 0 /\ start_time = 0 /\ pc = "top" /\ t_now = 0
    /\ blink_state = DZero
    /\ blink_closing = FALSE
    /\ next_blink_time = 0
    /\ space_event = "none"
    /\ blink_end = -1

NextLoop ==
    \/ \E e \in {"QUIT", "ESCAPE", "q", "other"} : PostEvent(e)
    \/ LoopTest
    \/ HandleEvents
    \/ RenderFrame

SpecLoop == InitLoop /\ [][NextLoop]_vars

\* wireframe_globe and gnomonic imported, nothing called yet
InitGnomonic ==
    IdleCache /\ IdleProj /\ IdleBlink /\ IdlePaint /\ IdleRest

NextGnomonic ==
    \/ \E px \in {(k * (W - 1)) \div GnomonicSteps : k \in 0..GnomonicSteps},
          py \in {(k * (H - 1)) \div GnomonicSteps : k \in 0..GnomonicSteps} :
          GnomonicScript(px, py) \/ GnomonicProjection(px, py)
    \/ SphereToScreen

SpecGnomonic == InitGnomonic /\ [][NextGnomonic]_vars

\* values_to_colors on its own
InitColors == IdleCache /\ IdleProj /\ IdleBlink /\ IdlePaint /\ IdleRest

NextColors == \E value \in ValueSamples : ValuesToColors(value)

SpecColors == InitColors /\ [][NextColors]_vars

\* The eyeball scripts after construction, as far as gaze and pupil go.
InitGaze ==
    /\ IdleCache /\ IdleProj /\ IdlePaint /\ IdleSh /\ IdleLoop /\ IdleGnomonic
    /\ prog \in Progs
    /\ start_time = 0
    /\ ticks = start_time
    /\ pc = "top"
    /\ t_now = 0
    /\ blink_state = DZero
    /\ blink_closing = FALSE
    /\ next_blink_time = InitialNextBlinkTime(prog)
    /\ space_event = "none"
    /\ blink_end = -1
    /\ eye = <<0, 0>>
    /\ target = <<0, 0>>
    /\ last_movement_time = IF prog = "eyeball" THEN 0
                            ELSE IF prog = "eyeball_fullscreen" THEN -1000
                            ELSE Unset
    /\ movement_interval \in IF prog = "eyeball" THEN SaccadeIntervals ELSE {0}
    /\ pupil_value = InitialPupil(prog)
    /\ last_key = "none"
    /\ frames = 0
    /\ keys = 0
    /\ saccade_time = -1
    /\ saccade_gap = -1

NextGaze ==
    \/ Tick
    \/ BeginIteration
    \/ \E key \in {"up", "down", "left", "right"} : KeyArrow(key)
    \/ KeyR
    \/ GazeFrame

SpecGaze == InitGaze /\ [][NextGaze]_vars

\* The event loop of the same scripts with the pupil keys held down.
NextPupil ==
    \/ Tick
    \/ BeginIteration
    \/ \E key \in {"plus", "minus"} : KeyPupil(key)

SpecPupil == InitGaze /\ [][NextPupil]_vars

(***************************************************************************)
(* C1.  Coordinate-grid memoisation: after any sequence of calls the cache *)
(* holds exactly one entry per distinct key requested so far, the grid of  *)
(* a key is built exactly once, on the first call with that key, every     *)
(* call returns the cached entry of its key, and no entry is ever removed  *)
(* or replaced.                                                            *)
(***************************************************************************)
BuildCount(key) == Cardinality({i \in DOMAIN build_log : build_log[i] = key})

CacheHoldsRequested ==
    /\ DOMAIN coord_cache = Range(call_log)
    /\ \A key \in Range(call_log) :
          /\ BuildCount(key) = 1
          /\ coord_cache[key].H_res = key[1]
          /\ coord_cache[key].W_res = key[2]
    /\ \A k1, k2 \in DOMAIN coord_cache :
          coord_cache[k1].serial = coord_cache[k2].serial => k1 = k2
    /\ call_log # <<>> => returned = coord_cache[call_log[Len(call_log)]]

CacheEntriesKept ==
    /\ \A key \in DOMAIN coord_cache :
          /\ key \in DOMAIN coord_cache'
          /\ coord_cache'[key] = coord_cache[key]
    /\ Len(call_log') = Len(call_log) + 1 =>
          LET key == call_log'[Len(call_log')] IN
             IF key \in Range(call_log)
                THEN build_log' = build_log /\ returned' = coord_cache[key]
                ELSE build_log' = Append(build_log, key)

C1_CacheMemoized == [](CacheHoldsRequested) /\ [][CacheEntriesKept]_vars

\* a key requested a second time while the cache holds another key as well
C1_Witness ==
    /\ Cardinality(DOMAIN coord_cache) >= 2
    /\ \E i, j \in DOMAIN call_log : i < j /\ call_log[i] = call_log[j]
    /\ Len(build_log) < Len(call_log)

(***************************************************************************)
(* The projection claims speak of unit directions: vectors of length one,  *)
(* up to the rounding of the fixed-point coordinates.                      *)
(***************************************************************************)
IsUnit(d) ==
    Abs(d[1] * d[1] + d[2] * d[2] + d[3] * d[3] - FixedOne * FixedOne) <= 4 * FixedOne

\* the pixel the projection computes before its bounds check
PixelOf(d) ==
    LET g == GreatCircleAngle(d[1])
        az == ATan2(d[3], d[2])
    IN  <<ScreenX(g, az), ScreenY(g, az)>>

\* the great-circle angle that one pixel of truncation in each of screen_x
\* and screen_y can move the inverse grid's angle by
OnePixelAngle == (10 * Quarter) \div (9 * 320) + (10 * Quarter) \div (9 * 240) + 1

(***************************************************************************)
(* C2.  Forward/inverse round trip: for every forward-hemisphere unit      *)
(* direction that azimuthal_equidistant_projection maps to a pixel, the    *)
(* inverse grid of get_coordinate_grids_cached(480, 640) marks that pixel  *)
(* valid and gives it the direction's great-circle angle, up to one pixel  *)
(* of truncation.                                                          *)
(***************************************************************************)
C2_RoundTrip ==
    (grid_sample.taken /\ IsUnit(direction) /\ direction[1] > 0) =>
        /\ grid_sample.valid_mask
        /\ Abs(grid_sample.great_circle_angle - GreatCircleAngle(direction[1]))
              <= OnePixelAngle

(***************************************************************************)
(* C3.  azimuthal_equidistant_projection returns either (None, None) or a  *)
(* pair of integers with 0 <= screen_x < 640 and 0 <= screen_y < 480:      *)
(* never a pair with one None, never an out-of-bounds pixel.               *)
(***************************************************************************)
C3_ProjectionInBounds ==
    \/ screen[1].none /\ screen[2].none
    \/ /\ ~screen[1].none /\ ~screen[2].none
       /\ 0 <= screen[1].val /\ screen[1].val < 640
       /\ 0 <= screen[2].val /\ screen[2].val < 480

\* a direction in front of the viewer whose pixel falls off the screen
C3_Witness ==
    /\ direction[1] > 0
    /\ ~InBounds(PixelOf(direction)[1], PixelOf(direction)[2])
    /\ screen = NoneNone

(***************************************************************************)
(* C4.  The projection returns (None, None) for every direction with       *)
(* x <= 0, whatever y and z are; for a unit direction with x > 0 the       *)
(* great-circle angle is at most pi/2, so such a direction is rejected     *)
(* only by the final screen-bounds check.                                  *)
(***************************************************************************)
C4_BehindRejected ==
    /\ direction[1] <= 0 => screen = NoneNone
    /\ (IsUnit(direction) /\ direction[1] > 0) =>
          /\ GreatCircleAngle(direction[1]) <= max_angle
          /\ screen = NoneNone =>
                ~InBounds(PixelOf(direction)[1], PixelOf(direction)[2])
          /\ screen # NoneNone =>
                screen = <<Some(PixelOf(direction)[1]), Some(PixelOf(direction)[2])>>

\* a unit direction of the forward hemisphere that the bounds check rejects
C4_Witness ==
    /\ IsUnit(direction)
    /\ direction[1] > 0
    /\ direction[3] # 0
    /\ screen = NoneNone

IsUpdate == pc = "events" /\ pc' = "top"

BlinkInProgress == DLess(DZero, blink_state) \/ blink_closing

\* The closing phase is entered / the eye has reopened, in this update.
BlinkStarts == IsUpdate /\ ~blink_closing /\ DEq(blink_state, DZero)
                        /\ DLess(DZero, blink_state')
BlinkCompletes == IsUpdate /\ DLess(DZero, blink_state)
                           /\ DEq(blink_state', DZero)

\* The number of further updates until the eye is open again when no blink
\* is due and no key is pressed (99 if more than `fuel`).
RECURSIVE UpdatesToOpen(_, _)
UpdatesToOpen(self, fuel) ==
    IF DEq(self.blink_state, DZero) /\ ~self.blink_closing THEN 0
    ELSE IF fuel = 0 THEN 99
    ELSE 1 + UpdatesToOpen(
                update_blinking([self EXCEPT !.next_blink_time = 1],
                                0, FALSE, 1, 1), fuel - 1)

(***************************************************************************)
(* C6.  Blink range: in eyeball, eyeball_fullscreen and gpu_eyeball, under *)
(* any interleaving of frame updates and SPACE key presses, the blink      *)
(* state satisfies 0.0 <= blink_state <= 1.0 at all times.                 *)
(***************************************************************************)
C6_BlinkRange ==
    /\ DLeq(DZero, blink_state)
    /\ DLeq(blink_state, DOne)

\* The eye is fully closed, after an earlier blink has run to its end.
C6_Witness ==
    /\ DEq(blink_state, DOne)
    /\ blink_end >= 0

(***************************************************************************)
(* C7.  Blink cycle: once update_blinking has started a blink and no key   *)
(* is pressed, every update of the closing phase raises blink_state by     *)
(* blink_speed (0.2), the sum cut off at 1.0, and the phase ends only when *)
(* blink_state equals 1.0; every update after that lowers blink_state by   *)
(* 0.2, the difference cut off at 0.0, and never re-enters the closing     *)
(* phase before blink_state is back at 0.0; the eye is open again after at *)
(* most 11 updates, the starting one included.                             *)
(***************************************************************************)
C7_ClosingStep ==
    (IsUpdate /\ (blink_closing \/ BlinkStarts)) =>
        /\ DLess(blink_state, blink_state')
        /\ blink_state' =
              FMin(DOne, FAdd(IF BlinkStarts THEN BlinkStartValue
                                             ELSE blink_state, blink_speed))
        /\ blink_closing' = ~DEq(blink_state', DOne)

C7_OpeningStep ==
    (IsUpdate /\ ~blink_closing /\ DLess(DZero, blink_state)) =>
        /\ DLess(blink_state', blink_state)
        /\ blink_state' = FMax(DZero, FSub(blink_state, blink_speed))
        /\ ~blink_closing'

C7_CountsDown ==
    (IsUpdate /\ BlinkInProgress) =>
        UpdatesToOpen(Self', 12) = UpdatesToOpen(Self, 12) - 1

C7_BlinkCycle ==
    /\ [](BlinkInProgress => UpdatesToOpen(Self, 12) <= 10)
    /\ [][C7_ClosingStep /\ C7_OpeningStep /\ C7_CountsDown]_vars

\* A whole cycle has run: the eye is open again after a blink.
C7_Witness ==
    /\ blink_end >= 0
    /\ DEq(blink_state, DZero)
    /\ ~blink_closing

(***************************************************************************)
(* C8.  Blink scheduling: absent SPACE key presses, a blink starts only in *)
(* an update with current_time >= next_blink_time and blink_state == 0.0;  *)
(* the update at time t in which a blink completes sets next_blink_time to *)
(* a value in [t + 3, t + 6]; hence the eye stays fully open for at least  *)
(* 3 seconds between the end of one blink and the start of the next.       *)
(***************************************************************************)
C8_StartsWhenDue ==
    (IsUpdate /\ ~blink_closing /\ blink_closing') =>
        /\ DEq(blink_state, DZero)
        /\ CurrentTime >= next_blink_time
        /\ CurrentTime >= next_blink_time'

C8_Reschedules ==
    BlinkCompletes =>
        /\ next_blink_time' >= CurrentTime + 3000
        /\ next_blink_time' <= CurrentTime + 6000

C8_OpenThreeSeconds ==
    (BlinkStarts /\ blink_end >= 0) => CurrentTime >= blink_end + 3000

C8_BlinkScheduling ==
    [][C8_StartsWhenDue /\ C8_Reschedules /\ C8_OpenThreeSeconds]_vars

\* A second blink is under way.
C8_Witness ==
    /\ blink_end >= 0
    /\ blink_closing

(***************************************************************************)
(* C9.  SPACE triggers an immediate blink: in eyeball and                  *)
(* eyeball_fullscreen, for every start_time of the loop, if blink_state is *)
(* 0.0 and no blink is in progress when SPACE is handled, the              *)
(* update_blinking of that same loop iteration starts a blink, so that     *)
(* blink_state is greater than 0 after it.  (The press is taken at a clock *)
(* reading above 0: a next_blink_time of 0.0 means "not set".)             *)
(***************************************************************************)
C9_SpaceBlinksAtOnce ==
    [][(/\ IsUpdate
        /\ prog \in Progs
        /\ space_event = "open"
        /\ next_blink_time > 0)
       => DLess(DZero, blink_state')]_vars

(***************************************************************************)
(* C10.  Fully closed eye: when blink_state is 1.0, the frame of           *)
(* EyeballRenderer shows eyelid_color on every pixel of the valid          *)
(* hemisphere mask and the frame of FullscreenEyeballRenderer shows        *)
(* eyelid_color on every pixel of the render grid; no sclera, iris or      *)
(* pupil pixel remains visible.                                            *)
(***************************************************************************)
C10_ClosedEyeCovered ==
    (painted # "none" /\ DEq(blink_state, DOne)) =>
        IF prog = "eyeball"
           THEN ValidMask(H_low, W_low, pixel[1], pixel[2])
                   => (painted = "eyelid" /\ LayerColor(painted) = eyelid_color)
           ELSE prog = "eyeball_fullscreen"
                   => (painted = "eyelid" /\ LayerColor(painted) = eyelid_color)

(***************************************************************************)
(* C11.  Gaze bounds: under frame updates, automatic saccades, arrow keys  *)
(* and R resets, the two target coordinates and the two eye coordinates    *)
(* stay within [-max_eye_angle, max_eye_angle] in EyeballRenderer and      *)
(* within [-max_eye_movement, max_eye_movement] in the fullscreen          *)
(* renderer (and in gpu_eyeball, which has the same saccade block).        *)
(***************************************************************************)
C11_GazeBounds ==
    \A i \in 1..2 :
        /\ Abs(target[i]) <= MaxMove(prog)
        /\ Abs(eye[i]) <= MaxMove(prog)

\* DOWN pressed after a saccade, with the target at the upper bound, and
\* the eye on its way there
C11_Witness ==
    /\ last_key = "down"
    /\ saccade_time >= 0
    /\ target[1] = MaxMove(prog)
    /\ eye[1] > 0

(***************************************************************************)
(* C17.  Saccade interpolation: every update moves each eye coordinate by  *)
(* movement_speed (0.05) times its remaining difference to the target, up  *)
(* to the rounding of the last digit: the distance shrinks to 0.95 of what *)
(* it was, the eye never passes the target, and while the target stays the *)
(* same the distance decreases strictly until it is below the resolution.  *)
(***************************************************************************)
IsGazeUpdate == frames' = frames + 1

C17_Interpolation ==
    [][IsGazeUpdate =>
         \A i \in 1..2 :
            LET before == target'[i] - eye[i]
                moved == eye'[i] - eye[i]
                after == target'[i] - eye'[i]
            IN  /\ Abs(100 * moved - 5 * before) <= 50
                /\ Abs(100 * after - 95 * before) <= 50
                /\ before >= 0 => (moved >= 0 /\ after >= 0)
                /\ before <= 0 => (moved <= 0 /\ after <= 0)
                /\ Abs(before) >= 10 => Abs(after) < Abs(before)]_vars

\* an eye part of the way to a target it was given two updates ago
C17_Witness ==
    /\ frames >= 2
    /\ saccade_time >= 0
    /\ CurrentTime > saccade_time
    /\ eye[1] # 0
    /\ eye[1] # target[1]

(***************************************************************************)
(* C18.  Saccade spacing: an update chooses a new target by itself only    *)
(* when current_time - last_movement_time exceeds movement_interval (or,   *)
(* in gpu_eyeball, on the first frame); it then sets last_movement_time to *)
(* current_time and draws movement_interval from [2, 5] seconds, so two    *)
(* consecutive automatic target changes are more than 2 seconds apart.     *)
(***************************************************************************)
C18_OnlyWhenDue ==
    [][(IsGazeUpdate /\ last_movement_time # Unset
          /\ ~(CurrentTime - last_movement_time > movement_interval))
         => /\ target' = target
            /\ last_movement_time' = last_movement_time
            /\ movement_interval' = movement_interval]_vars

C18_Rearms ==
    [][(IsGazeUpdate /\ last_movement_time # Unset
          /\ CurrentTime - last_movement_time > movement_interval)
         => /\ last_movement_time' = CurrentTime
            /\ movement_interval' >= 2000
            /\ movement_interval' <= 5000]_vars

C12_PupilBounds ==
    /\ DLeq(MinPupil(prog), pupil_value)
    /\ DLeq(pupil_value, MaxPupil(prog))
    /\ DEq(pupil_value, MaxPupil(prog))
          => DEq(PupilKey(prog, pupil_value, "plus"), MaxPupil(prog))
    /\ DEq(pupil_value, MinPupil(prog))
          => DEq(PupilKey(prog, pupil_value, "minus"), MinPupil(prog))

\* the value at a bound, brought there by the key that pushes against it
C12_Witness ==
    \/ last_key = "plus" /\ DEq(pupil_value, MaxPupil(prog))
    \/ last_key = "minus" /\ DEq(pupil_value, MinPupil(prog))

(***************************************************************************)
(* C13.  Region priority: in the frames of EyeballRenderer (inside the     *)
(* valid mask), of FullscreenEyeballRenderer and of gpu_eyeball's fragment *)
(* shader, a pixel of the eyelid region shows the eyelid colour; outside   *)
(* it a pixel of the pupil region shows the pupil colour; outside both a   *)
(* pixel of the iris region shows an iris colour; every other pixel shows  *)
(* the sclera.  Eyelid over pupil over iris over sclera.                   *)
(***************************************************************************)
RegionEyelid ==
    CASE prog = "eyeball" ->
            DLess(DZero, blink_state) /\ CoreEyelidMask(pixel[2], blink_state)
      [] prog = "eyeball_fullscreen" ->
            DLess(DZero, blink_state)
            /\ FullEyelidMask(pixel[2], BlinkIndex(blink_state), self_decimation)
      [] OTHER -> GpuEyelidMask(pixel[2], blink_state)

RegionEllipse(rx, ry) ==
    IF prog = "eyeball_fullscreen"
       THEN EllipseMask(NormFull(pixel[1], W_render(self_decimation)),
                        NormFull(pixel[2], H_render(self_decimation)),
                        iris_center, rx, ry)
       ELSE EllipseMask(NormFull(2 * pixel[1] + 1, 2 * W),
                        NormFull(2 * pixel[2] + 1, 2 * H),
                        iris_center, rx, ry)

RegionPupil ==
    IF prog = "eyeball"
       THEN DistanceWithin(pixel[1], pixel[2], iris_center, pupil_size)
       ELSE RegionEllipse(pupil_radius_x * pupil_size, pupil_radius_y * pupil_size)

RegionIris ==
    IF prog = "eyeball"
       THEN DistanceWithin(pixel[1], pixel[2], iris_center, iris_radius)
       ELSE RegionEllipse(100 * iris_radius_x, 100 * iris_radius_y)

C13_RegionPriority ==
    (/\ painted # "none"
     /\ prog \in Progs
     /\ prog = "eyeball" => ValidMask(H_low, W_low, pixel[1], pixel[2]))
    => /\ painted = IF RegionEyelid THEN "eyelid"
                    ELSE IF RegionPupil THEN "pupil"
                    ELSE IF RegionIris THEN "iris"
                    ELSE "sclera"
       /\ RegionEyelid => LayerColor(painted) = eyelid_color
       /\ (~RegionEyelid /\ RegionPupil) => LayerColor(painted) = pupil_color

\* a pixel of the pupil, hence of the iris, under the lid
C13_Witness ==
    /\ painted = "eyelid"
    /\ RegionEyelid /\ RegionPupil /\ RegionIris

(***************************************************************************)
(* C14.  Outside-hemisphere pixels are black: in the frame of              *)
(* EyeballRenderer.create_eyeball_surface and in the frame of              *)
(* create_spherical_harmonics_surface a low-resolution pixel outside       *)
(* valid_mask has colour (0, 0, 0), whatever the eye position, the blink   *)
(* state, the pupil size and the harmonic's values are.                    *)
(***************************************************************************)
C14_OutsideBlack ==
    (/\ painted # "none"
     /\ prog \in {"eyeball", "spherical_harmonics"}
     /\ ~ValidMask(H_low, W_low, pixel[1], pixel[2]))
    => /\ painted = "black"
       /\ LayerColor(painted) = <<0, 0, 0>>
       /\ prog = "spherical_harmonics" => sh_colour = <<0, 0, 0>>

\* a corner pixel of the harmonics frame, outside the hemisphere
C14_Witness ==
    /\ prog = "spherical_harmonics"
    /\ painted = "black"
    /\ ~ValidMask(H_low, W_low, pixel[1], pixel[2])
    /\ sh_colour = <<0, 0, 0>>

(***************************************************************************)
(* C15.  values_to_colors is a blue-to-white-to-red map on [-1, 1]: -1     *)
(* gives (0, 0, 255), 0 gives (255, 255, 255), +1 gives (255, 0, 0); a     *)
(* value below -1 gives the colour of -1 and a value above +1 the colour   *)
(* of +1; every channel is an integer in 0..255, the blue channel is 255   *)
(* for values below 0 and the red channel is 255 for values from 0 on.     *)
(***************************************************************************)
C15_ColourMap ==
    sh_colour # <<>> =>
       /\ sh_value = -ValueOne => sh_colour = <<0, 0, 255>>
       /\ sh_value = 0 => sh_colour = <<255, 255, 255>>
       /\ sh_value = ValueOne => sh_colour = <<255, 0, 0>>
       /\ sh_value < -ValueOne => sh_colour = <<0, 0, 255>>
       /\ sh_value > ValueOne => sh_colour = <<255, 0, 0>>
       /\ \A c \in 1..3 : sh_colour[c] \in 0..255
       /\ sh_value < 0 => sh_colour[3] = 255
       /\ sh_value >= 0 => sh_colour[1] = 255

\* a value beyond the range, clipped to the colour of the end
C15_Witness == sh_value > ValueOne /\ sh_colour = <<255, 0, 0>>

(***************************************************************************)
(* C16.  Quit terminates every render loop: in each of the seven scripts,  *)
(* a QUIT event or an ESC key press that has been posted is taken by the   *)
(* loop in its current or its next iteration, the pass that takes it sets  *)
(* running to False, and after that at most the frame of the current       *)
(* iteration is rendered before the loop exits.                            *)
(***************************************************************************)
C16_QuitTerminates ==
    /\ passes_since_post >= 2 => ~running
    /\ frames_not_running <= 1

(***************************************************************************)
(* C19.  Gnomonic screen-to-sphere and sphere-to-screen are inverse: for   *)
(* every pixel of the 1280 x 720 screen that the gnomonic mapping does not *)
(* mask, the mapping gives its (theta, phi) without an error, and          *)
(* sphere_to_screen on them, with rotation_offset 0, completes without an  *)
(* error and returns a pixel within one pixel of the one started from.     *)
(***************************************************************************)
C19_GnomonicRoundTrip ==
    /\ gn_angles.status # "NameError"
    /\ gn_screen.status # "NameError"
    /\ gn_screen.status = "ok"
          => /\ ~gn_screen.pixel[1].none /\ ~gn_screen.pixel[2].none
             /\ Abs(gn_screen.pixel[1].val - gn_pixel[1]) <= 1
             /\ Abs(gn_screen.pixel[2].val - gn_pixel[2]) <= 1

====
